---- MODULE Spec2Model ----
(***************************************************************************)
(* A model of src/main.py (kota-yata/zoom-analysis): the delimiter        *)
(* detection (_detect_delimiter), the parse pass (parse_csv), the series   *)
(* builder (build_series) and the no-data branch of plot_counts.           *)
(*                                                                         *)
(* A text (a Python str) is a sequence of one-character strings, so that   *)
(* strip, lower, isalpha, isdigit, float() and int() are computed on the   *)
(* characters.  A row is the list of fields csv.reader yields for one      *)
(* line.  An optional value (Python None or a value) is <<>> or <<v>>.     *)
(***************************************************************************)
EXTENDS Integers, Sequences, FiniteSets

VARIABLES
    target_ip,   \* parse_csv's parameter
    pc,          \* position of parse_csv: "loop", "done" (returned), "raised"
    header,      \* None, or the header-name list ([] when headerless)
    mapping,     \* None, or the tuple (t, sip, sport, dip, dport) of indices
    counts,      \* counts[(ip, port)][second] -> count
    min_sec,     \* None or int; an int after the return
    max_sec,     \* None or int; an int after the return
    row,         \* the loop variable: the row just read
    nread,       \* history: rows read from the reader so far
    nelig,       \* history: rows with at least 5 fields read so far
    nacc,        \* history: rows that reached counts[key][sec] += 1
    outcome,     \* history: what became of the row just read
    series,      \* None, or the last call of build_series with its result
    plotted,     \* None, or what the last call of plot_counts did
    lines,       \* _detect_delimiter: the lines of the file
    dpc,         \* _detect_delimiter: "start", "reading", "done"
    dreads,      \* _detect_delimiter: iterations of range(50) begun
    dline,       \* _detect_delimiter: the line just read
    delimiter,   \* None, or the value _detect_delimiter returned
    derr         \* history: the return came from the except OSError branch

vars == <<target_ip, pc, header, mapping, counts, min_sec, max_sec, row, nread,
          nelig, nacc, outcome, series, plotted, lines, dpc, dreads, dline,
          delimiter, derr>>

parseVars == <<target_ip, pc, header, mapping, counts, min_sec, max_sec, row,
               nread, nelig, nacc, outcome, series, plotted>>

delimVars == <<lines, dpc, dreads, dline, delimiter, derr>>

----------------------------------------------------------------------------
(* Bounds of the model. *)

\* rows one parse pass reads
MaxRows == 3

\* blank lines in front of the rest of a file given to _detect_delimiter
MaxBlank == 51

\* range(50) in _detect_delimiter
LineCap == 50

----------------------------------------------------------------------------
(* Optional values and small helpers. *)

None == <<>>

Some(v) == <<v>>

Range(s) == {s[i] : i \in 1..Len(s)}

SetMin(S) == CHOOSE x \in S : \A y \in S : x <= y

SetMax(S) == CHOOSE x \in S : \A y \in S : x >= y

----------------------------------------------------------------------------
(* Characters and the str methods the code uses. *)

LowerLetters == <<"a","b","c","d","e","f","g","h","i","j","k","l","m",
                  "n","o","p","q","r","s","t","u","v","w","x","y","z">>

UpperLetters == <<"A","B","C","D","E","F","G","H","I","J","K","L","M",
                  "N","O","P","Q","R","S","T","U","V","W","X","Y","Z">>

Digits == <<"0","1","2","3","4","5","6","7","8","9">>

LetterSet == Range(LowerLetters) \cup Range(UpperLetters)

DigitSet == Range(Digits)

\* the lower-case letter of each upper-case letter
LowerOf == [c \in Range(UpperLetters) |->
               LowerLetters[CHOOSE i \in 1..26 : UpperLetters[i] = c]]

\* str.isalpha on one character
IsAlpha(c) == c \in LetterSet

\* str.isdigit on one character
IsDigit(c) == c \in DigitSet

\* the characters str.strip() removes
IsSpace(c) == c \in {" ", "\t", "\n", "\r"}

DigitVal(c) == (CHOOSE i \in 1..10 : Digits[i] = c) - 1

LowerChar(c) == IF c \in DOMAIN LowerOf THEN LowerOf[c] ELSE c

\* str.lower
lower(s) == [i \in 1..Len(s) |-> LowerChar(s[i])]

\* str.strip
strip(s) ==
    LET keep == {i \in 1..Len(s) : ~IsSpace(s[i])}
    IN  IF keep = {} THEN <<>> ELSE SubSeq(s, SetMin(keep), SetMax(keep))

RECURSIVE DigitsValue(_)
DigitsValue(ds) ==
    IF ds = <<>> THEN 0
    ELSE 10 * DigitsValue(SubSeq(ds, 1, Len(ds) - 1)) + DigitVal(ds[Len(ds)])

T_inf == <<"i","n","f">>

T_infinity == <<"i","n","f","i","n","i","t","y">>

T_nan == <<"n","a","n">>

\* float(s): None for ValueError, else the value as (kind, sign, integer part,
\* whether the fraction is nonzero).  Surrounding whitespace and one sign are
\* accepted, then inf / infinity / nan in any case, or decimal digits with at
\* most one point and at least one digit.  (Exponents and underscores are not
\* in the alphabet of the texts below.)
ParseFloat(s) ==
    LET t == strip(s)
        signed == t /= <<>> /\ t[1] \in {"+", "-"}
        neg == signed /\ t[1] = "-"
        body == IF signed THEN Tail(t) ELSE t
        dots == {i \in 1..Len(body) : body[i] = "."}
        d == IF dots = {} THEN Len(body) + 1 ELSE SetMin(dots)
        frac == SubSeq(body, d + 1, Len(body))
    IN  IF lower(body) \in {T_inf, T_infinity}
        THEN Some([kind |-> "inf", neg |-> neg, ip |-> 0, fracnz |-> FALSE])
        ELSE IF lower(body) = T_nan
        THEN Some([kind |-> "nan", neg |-> neg, ip |-> 0, fracnz |-> FALSE])
        ELSE IF \/ Cardinality(dots) > 1
                \/ Len(body) - Cardinality(dots) = 0
                \/ \E i \in 1..Len(body) : i \notin dots /\ ~IsDigit(body[i])
        THEN None
        ELSE Some([kind |-> "fin", neg |-> neg,
                   ip |-> DigitsValue(SubSeq(body, 1, d - 1)),
                   fracnz |-> \E i \in 1..Len(frac) : frac[i] /= "0"])

\* int(s): None for ValueError, else the integer
ParseInt(s) ==
    LET t == strip(s)
        signed == t /= <<>> /\ t[1] \in {"+", "-"}
        body == IF signed THEN Tail(t) ELSE t
    IN  IF body = <<>> \/ \E i \in 1..Len(body) : ~IsDigit(body[i])
        THEN None
        ELSE Some(IF signed /\ t[1] = "-" THEN 0 - DigitsValue(body)
                  ELSE DigitsValue(body))

\* math.floor raises on an infinity (OverflowError) and on a NaN (ValueError)
FloorRaises(x) == x.kind /= "fin"

\* int(math.floor(t)) of a finite t: towards minus infinity
Floor(x) ==
    IF x.neg /\ x.fracnz THEN 0 - x.ip - 1
    ELSE IF x.neg THEN 0 - x.ip
    ELSE x.ip

----------------------------------------------------------------------------
(* The header names parse_csv accepts, in the order find() tries them. *)

N_frame_time_epoch == <<"f","r","a","m","e",".","t","i","m","e","_","e","p","o","c","h">>

N_time_epoch == <<"t","i","m","e","_","e","p","o","c","h">>

N_time == <<"t","i","m","e">>

N_timestamp == <<"t","i","m","e","s","t","a","m","p">>

N_ip_src == <<"i","p",".","s","r","c">>

N_src_ip == <<"s","r","c","_","i","p">>

N_source_ip == <<"s","o","u","r","c","e","_","i","p">>

N_udp_srcport == <<"u","d","p",".","s","r","c","p","o","r","t">>

N_tcp_srcport == <<"t","c","p",".","s","r","c","p","o","r","t">>

N_src_port == <<"s","r","c","_","p","o","r","t">>

N_sport == <<"s","p","o","r","t">>

N_source_port == <<"s","o","u","r","c","e","_","p","o","r","t">>

N_ip_dst == <<"i","p",".","d","s","t">>

N_dst_ip == <<"d","s","t","_","i","p">>

N_destination_ip == <<"d","e","s","t","i","n","a","t","i","o","n","_","i","p">>

N_udp_dstport == <<"u","d","p",".","d","s","t","p","o","r","t">>

N_tcp_dstport == <<"t","c","p",".","d","s","t","p","o","r","t">>

N_dst_port == <<"d","s","t","_","p","o","r","t">>

N_dport == <<"d","p","o","r","t">>

N_destination_port == <<"d","e","s","t","i","n","a","t","i","o","n","_","p","o","r","t">>

TimeAliases == <<N_frame_time_epoch, N_time_epoch, N_time, N_timestamp>>

SipAliases == <<N_ip_src, N_src_ip, N_source_ip>>

SportAliases == <<N_udp_srcport, N_tcp_srcport, N_src_port, N_sport, N_source_port>>

DipAliases == <<N_ip_dst, N_dst_ip, N_destination_ip>>

DportAliases == <<N_udp_dstport, N_tcp_dstport, N_dst_port, N_dport, N_destination_port>>

\* the five candidate lists, in the order of the mapping tuple
FieldAliases == <<TimeAliases, SipAliases, SportAliases, DipAliases, DportAliases>>

----------------------------------------------------------------------------
(* Layout detection. *)

NaturalOrder == <<0, 1, 2, 3, 4>>

LegacyOrder == <<0, 3, 1, 4, 2>>

\* looks_like_ip
looks_like_ip(s) ==
    LET t == strip(s)
    IN  (\E i \in 1..Len(t) : t[i] = ".") /\ (\E i \in 1..Len(t) : IsDigit(t[i]))

\* a variant of TooShort: the arity test is off by one
TooShortFour(r) == Len(r) < 4

\* `if not row or len(row) < 5: continue`
TooShort(r) == Len(r) < 5

\* a variant of LayoutUndecided: the layout is detected again on every row
LayoutAlwaysUndecided(h) == TRUE

\* `if header is None`
LayoutUndecided(h) == h = None

\* any(any(c.isalpha() for c in cell) for cell in row)
has_alpha(r) == \E i \in 1..Len(r) : \E j \in 1..Len(r[i]) : IsAlpha(r[i][j])

\* [c.strip().lower() for c in row]
HeaderNames(r) == [i \in 1..Len(r) |-> lower(strip(r[i]))]

\* find(cands): the 0-based index in the header of the first candidate that is
\* in the header (list.index gives its first occurrence), or None
find(cands, hdr) ==
    LET present == {i \in 1..Len(cands) : cands[i] \in Range(hdr)}
    IN  IF present = {} THEN None
        ELSE Some(SetMin({j \in 1..Len(hdr) : hdr[j] = cands[SetMin(present)]}) - 1)

\* a variant of HeaderMapping: the indices found by name are kept and only the
\* missing ones fall back to the natural order
HeaderMappingPartial(hdr) ==
    LET idx == [f \in 1..5 |-> find(FieldAliases[f], hdr)]
    IN  [f \in 1..5 |-> IF idx[f] = None THEN f - 1 ELSE idx[f][1]]

\* the mapping a header row gives: by name when all five resolve, else the
\* natural order
HeaderMapping(hdr) ==
    LET idx_t == find(TimeAliases, hdr)
        idx_sip == find(SipAliases, hdr)
        idx_sport == find(SportAliases, hdr)
        idx_dip == find(DipAliases, hdr)
        idx_dport == find(DportAliases, hdr)
    IN  IF None \in {idx_t, idx_sip, idx_sport, idx_dip, idx_dport}
        THEN NaturalOrder
        ELSE <<idx_t[1], idx_sip[1], idx_sport[1], idx_dip[1], idx_dport[1]>>

\* a variant of HeaderlessMapping: the two orders are swapped
HeaderlessMappingSwapped(r) ==
    IF looks_like_ip(r[2]) THEN LegacyOrder ELSE NaturalOrder

\* the mapping the first data row of a headerless input gives
HeaderlessMapping(r) ==
    IF looks_like_ip(r[2]) THEN NaturalOrder ELSE LegacyOrder

----------------------------------------------------------------------------
(* One row under a mapping. *)

\* the try block: float / strip / int of the mapped fields; ok is FALSE when
\* an index is out of the row (IndexError) or float() or int() fails
\* (ValueError)
ParseFields(r, m) ==
    LET inRow == \A i \in 1..5 : m[i] + 1 <= Len(r)
        t == IF inRow THEN ParseFloat(r[m[1] + 1]) ELSE None
        sport == IF inRow THEN ParseInt(r[m[3] + 1]) ELSE None
        dport == IF inRow THEN ParseInt(r[m[5] + 1]) ELSE None
    IN  IF inRow /\ t /= None /\ sport /= None /\ dport /= None
        THEN [ok |-> TRUE, t |-> t[1], sip |-> strip(r[m[2] + 1]),
              sport |-> sport[1], dip |-> strip(r[m[4] + 1]), dport |-> dport[1]]
        ELSE [ok |-> FALSE]

\* the endpoint filter: the key of the row, or None when the target is not
\* an endpoint
ResolveKey(f, target) ==
    IF f.sip = target THEN Some(<<target, f.sport>>)
    ELSE IF f.dip = target THEN Some(<<target, f.dport>>)
    ELSE None

\* a variant of Incr: the cell is set to 1 instead of incremented
IncrAssign(c, key, sec) ==
    LET inner == IF key \in DOMAIN c THEN c[key] ELSE <<>>
        new == [s \in (DOMAIN inner) \cup {sec} |-> IF s = sec THEN 1 ELSE inner[s]]
    IN  [k \in (DOMAIN c) \cup {key} |-> IF k = key THEN new ELSE c[k]]

\* counts[key][sec] += 1 on the defaultdict of defaultdict(int)
Incr(c, key, sec) ==
    LET inner == IF key \in DOMAIN c THEN c[key] ELSE <<>>
        new == IF sec \in DOMAIN inner
               THEN [inner EXCEPT ![sec] = @ + 1]
               ELSE [s \in (DOMAIN inner) \cup {sec} |->
                        IF s = sec THEN 1 ELSE inner[s]]
    IN  [k \in (DOMAIN c) \cup {key} |-> IF k = key THEN new ELSE c[k]]

\* `if min_sec is None or sec < min_sec: min_sec = sec`
NewMin(mn, sec) == IF mn = None \/ sec < mn[1] THEN Some(sec) ELSE mn

\* `if max_sec is None or sec > max_sec: max_sec = sec`
NewMax(mx, sec) == IF mx = None \/ sec > mx[1] THEN Some(sec) ELSE mx

\* the lines after the try block, for a row that parsed as f
Aggregate(f) ==
    LET key == ResolveKey(f, target_ip)
    IN  IF key = None
        THEN /\ outcome' = "nomatch"
             /\ UNCHANGED <<pc, counts, min_sec, max_sec, nacc>>
        ELSE IF FloorRaises(f.t)
        THEN /\ outcome' = "raised"
             /\ pc' = "raised"
             /\ UNCHANGED <<counts, min_sec, max_sec, nacc>>
        ELSE /\ outcome' = "accepted"
             /\ counts' = Incr(counts, key[1], Floor(f.t))
             /\ min_sec' = NewMin(min_sec, Floor(f.t))
             /\ max_sec' = NewMax(max_sec, Floor(f.t))
             /\ nacc' = nacc + 1
             /\ UNCHANGED pc

\* one iteration of `for row in reader` on the row r
ProcessRow(r) ==
    /\ pc = "loop"
    /\ nread < MaxRows
    /\ row' = r
    /\ nread' = nread + 1
    /\ nelig' = IF Len(r) >= 5 THEN nelig + 1 ELSE nelig
    /\ UNCHANGED <<target_ip, series, plotted>>
    /\ UNCHANGED delimVars
    /\ IF TooShort(r)
       THEN /\ outcome' = "short"
            /\ UNCHANGED <<pc, header, mapping, counts, min_sec, max_sec, nacc>>
       ELSE IF LayoutUndecided(header) /\ has_alpha(r)
       THEN /\ header' = Some(HeaderNames(r))
            /\ mapping' = Some(HeaderMapping(HeaderNames(r)))
            /\ outcome' = "header"
            /\ UNCHANGED <<pc, counts, min_sec, max_sec, nacc>>
       ELSE LET m == IF LayoutUndecided(header)
                     THEN HeaderlessMapping(r) ELSE mapping[1]
                f == ParseFields(r, m)
            IN  /\ header' = IF LayoutUndecided(header) THEN Some(<<>>) ELSE header
                /\ mapping' = Some(m)
                /\ IF f.ok
                   THEN Aggregate(f)
                   ELSE /\ outcome' = "malformed"
                        /\ UNCHANGED <<pc, counts, min_sec, max_sec, nacc>>

\* the reader is exhausted: the lines after the loop, and the return of
\* (counts, min_sec, max_sec); the locals row, header and mapping end with the
\* call
EndOfInput ==
    /\ pc = "loop"
    /\ pc' = "done"
    /\ min_sec' = IF min_sec = None \/ max_sec = None THEN Some(0) ELSE min_sec
    /\ max_sec' = IF min_sec = None \/ max_sec = None THEN Some(0) ELSE max_sec
    /\ row' = <<>>
    /\ header' = None
    /\ mapping' = None
    /\ outcome' = "none"
    /\ UNCHANGED <<target_ip, counts, nread, nelig, nacc, series, plotted>>
    /\ UNCHANGED delimVars

----------------------------------------------------------------------------
(* build_series and plot_counts. *)

\* list(range(a, b))
PyRange(a, b) == [i \in 1..(IF b > a THEN b - a ELSE 0) |-> a + i - 1]

\* a variant of build_series: the range leaves out max_sec
build_series_open(c, mn, mx) ==
    LET xs == PyRange(mn, mx)
    IN  [xs |-> xs,
         ys |-> [i \in 1..Len(xs) |-> IF xs[i] \in DOMAIN c THEN c[xs[i]] ELSE 0]]

\* build_series(counts_for_key, min_sec, max_sec)
build_series(c, mn, mx) ==
    LET xs == PyRange(mn, mx + 1)
    IN  [xs |-> xs,
         ys |-> [i \in 1..Len(xs) |-> IF xs[i] \in DOMAIN c THEN c[xs[i]] ELSE 0]]

\* {k: v for k, v in counts.items() if k[1] == port_filter}, or counts itself
\* when port_filter is None
FilterPort(c, pf) ==
    IF pf = None THEN c
    ELSE [k \in {x \in DOMAIN c : x[2] = pf[1]} |-> c[k]]

\* `if not counts`: the message is printed and the function returns; else the
\* chart is drawn, with one line per key, and saved or shown
PlotResult(c, pf, save) ==
    LET shown == FilterPort(c, pf)
    IN  IF DOMAIN shown = {}
        THEN [nothing |-> TRUE, rendered |-> FALSE, saved |-> FALSE,
              nlines |-> 0, port_filter |-> pf]
        ELSE [nothing |-> FALSE, rendered |-> TRUE, saved |-> save,
              nlines |-> Cardinality(DOMAIN shown), port_filter |-> pf]

\* (min_sec, max_sec) pairs build_series is called with besides the returned
\* Observed Range
OtherRanges == {<<100, 99>>, <<0, 0>>, <<99, 101>>, <<-1, 100>>, <<5, 3>>}

\* port filters plot_counts is called with
PortFilters == {None, Some(1234), Some(80), Some(9)}

\* a call of build_series after the pass, on the sub-mapping of a key (the
\* function is pure: one call per behaviour shows all it can do)
BuildSeries ==
    /\ pc = "done"
    /\ series = None
    /\ plotted = None
    /\ \E k \in DOMAIN counts :
       \E rg \in OtherRanges \cup {<<min_sec[1], max_sec[1]>>} :
          series' = Some([key |-> k, mn |-> rg[1], mx |-> rg[2],
                          out |-> build_series(counts[k], rg[1], rg[2])])
    /\ UNCHANGED <<target_ip, pc, header, mapping, counts, min_sec, max_sec, row,
                   nread, nelig, nacc, outcome, plotted>>
    /\ UNCHANGED delimVars

\* a call of plot_counts after the pass, as main() makes it
PlotCounts ==
    /\ pc = "done"
    /\ series = None
    /\ plotted = None
    /\ \E pf \in PortFilters : \E save \in BOOLEAN :
          plotted' = Some(PlotResult(counts, pf, save))
    /\ UNCHANGED <<target_ip, pc, header, mapping, counts, min_sec, max_sec, row,
                   nread, nelig, nacc, outcome, series>>
    /\ UNCHANGED delimVars

----------------------------------------------------------------------------
(* The texts and rows of the parse pass. *)

T_100_0 == <<"1","0","0",".","0">>

T_neg == <<"-","0",".","5">>

T_101sp == <<" ","1","0","1"," ">>

T_empty == <<>>

IP_A == <<"1",".","2",".","3",".","4">>

IP_B == <<"5",".","6",".","7",".","8">>

IP_C == <<"9",".","9",".","9",".","9">>

IP_Asp == <<" ","1",".","2",".","3",".","4"," ">>

P_1234 == <<"1","2","3","4">>

P_80 == <<"8","0">>

P_80sp == <<" ","8","0"," ">>

P_80_5 == <<"8","0",".","5">>

H_IPSRC == <<" ","I","P",".","S","R","C"," ">>

H_x == <<"x">>

Targets == {IP_A, IP_C}

IpPairs == {<<IP_A, IP_B>>, <<IP_B, IP_A>>, <<IP_A, IP_A>>, <<IP_C, IP_B>>}

PortPairs == {<<P_1234, P_80>>, <<P_80, P_1234>>}

\* natural order: t, sip, sport, dip, dport
NatRows ==
    {<<t, p[1], q[1], p[2], q[2]>> :
        t \in {T_100_0, T_neg}, p \in IpPairs, q \in PortPairs}

\* rows the try block rejects, and one it accepts after stripping
OddRows ==
    {<<T_empty, IP_A, P_1234, IP_B, P_80>>,
     <<T_100_0, IP_A, P_80_5, IP_B, P_80>>,
     <<T_100_0, IP_A, P_1234, IP_B, P_80_5>>,
     <<T_101sp, IP_Asp, P_80sp, IP_B, P_1234>>}

\* timestamps float() accepts and math.floor does not
InfRows ==
    {<<t, p[1], P_1234, p[2], P_80>> :
        t \in {T_inf, T_nan}, p \in {<<IP_A, IP_B>>, <<IP_B, IP_B>>}}

\* legacy order: t, sport, dport, sip, dip
LegacyRows ==
    {<<T_100_0, P_1234, P_80, IP_A, IP_B>>,
     <<T_neg, P_1234, P_80, IP_B, IP_A>>,
     <<T_100_0, P_80, P_1234, IP_B, IP_B>>}

\* the order of HeaderPermuted: sip, sport, dip, dport, t
PermRows ==
    {<<IP_A, P_1234, IP_B, P_80, T_100_0>>,
     <<IP_B, P_1234, IP_A, P_80, T_neg>>,
     <<IP_A, P_1234, IP_B, P_80, T_inf>>}

SixRow == <<P_80, IP_A, P_1234, IP_B, P_80, T_100_0>>

ShortRows == {<<>>, <<N_time, N_sport>>, <<T_100_0, IP_A, P_1234, IP_B>>}

HeaderCanonical ==
    <<N_frame_time_epoch, N_ip_src, N_udp_srcport, N_ip_dst, N_udp_dstport>>

HeaderPermuted ==
    <<N_ip_src, N_udp_srcport, N_ip_dst, N_udp_dstport, N_frame_time_epoch>>

HeaderPartial ==
    <<N_ip_src, N_udp_srcport, N_ip_dst, H_x, N_frame_time_epoch>>

HeaderSix == <<N_sport, H_IPSRC, N_udp_srcport, N_ip_dst, N_dport, N_timestamp>>

HeaderRows == {HeaderCanonical, HeaderPermuted, HeaderPartial, HeaderSix}

Rows == NatRows \cup OddRows \cup InfRows \cup LegacyRows \cup PermRows \cup {SixRow}
        \cup ShortRows \cup HeaderRows

----------------------------------------------------------------------------
(* The parse pass: parse_csv from its first row to its return, then the    *)
(* calls on its result.                                                    *)

DelimIdle ==
    /\ lines = <<>>
    /\ dpc = "idle"
    /\ dreads = 0
    /\ dline = <<>>
    /\ delimiter = None
    /\ derr = FALSE

ParseStart ==
    /\ pc = "loop"
    /\ header = None
    /\ mapping = None
    /\ counts = <<>>
    /\ min_sec = None
    /\ max_sec = None
    /\ row = <<>>
    /\ nread = 0
    /\ nelig = 0
    /\ nacc = 0
    /\ outcome = "none"
    /\ series = None
    /\ plotted = None

Init ==
    /\ target_ip \in Targets
    /\ ParseStart
    /\ DelimIdle

ReadRow == \E r \in Rows : ProcessRow(r)

Next == ReadRow \/ EndOfInput \/ BuildSeries \/ PlotCounts

Spec == Init /\ [][Next]_vars

----------------------------------------------------------------------------
(* _detect_delimiter.  A line is its text without the line terminator (which *)
(* strip() removes and which is neither TAB nor COMMA); readline() gives ""  *)
(* only at the end of the file.                                              *)

TAB == "\t"

COMMA == ","

\* line.count(ch)
Count(line, ch) == Cardinality({i \in 1..Len(line) : line[i] = ch})

\* `if not line.strip()`
IsBlankLine(line) == strip(line) = <<>>

\* `if tabs or commas`
HasSignal(tabs, commas) == tabs /= 0 \/ commas /= 0

\* a variant of DecideDelimiter: a tie goes to COMMA
DecideDelimiterStrict(tabs, commas) == IF tabs > commas THEN TAB ELSE COMMA

\* `return "\t" if tabs >= commas else ","`
DecideDelimiter(tabs, commas) == IF tabs >= commas THEN TAB ELSE COMMA

\* one iteration of `for _ in range(50)`: readline, then break at the end of
\* the file, continue on a blank line, return on a line with a TAB or a COMMA
DetectStep ==
    /\ dpc = "reading"
    /\ dreads < LineCap
    /\ dreads' = dreads + 1
    /\ IF dreads >= Len(lines)
       THEN /\ dline' = <<>>
            /\ dpc' = "done"
            /\ delimiter' = Some(COMMA)
       ELSE LET line == lines[dreads + 1]
                tabs == Count(line, TAB)
                commas == Count(line, COMMA)
            IN  /\ dline' = line
                /\ IF ~IsBlankLine(line) /\ HasSignal(tabs, commas)
                   THEN /\ dpc' = "done"
                        /\ delimiter' = Some(DecideDelimiter(tabs, commas))
                   ELSE UNCHANGED <<dpc, delimiter>>
    /\ UNCHANGED <<lines, derr>>
    /\ UNCHANGED parseVars

\* range(50) is used up: the loop ends and the final `return ","` runs
DetectExhausted ==
    /\ dpc = "reading"
    /\ dreads = LineCap
    /\ dpc' = "done"
    /\ delimiter' = Some(COMMA)
    /\ UNCHANGED <<lines, dreads, dline, derr>>
    /\ UNCHANGED parseVars

\* open() or readline() raises OSError: `except OSError: pass`, then
\* `return ","`
DetectOSError ==
    /\ dpc = "reading"
    /\ dpc' = "done"
    /\ derr' = TRUE
    /\ delimiter' = Some(COMMA)
    /\ UNCHANGED <<lines, dreads, dline>>
    /\ UNCHANGED parseVars

\* the lines of the files
DLines ==
    {<<>>, <<TAB>>, <<"a">>, <<"a", COMMA, "b">>, <<"a", TAB, "b">>,
     <<"a", TAB, "b", COMMA, "c">>, <<"a", COMMA, "b", COMMA, "c", TAB, "d">>}

Tails == {<<>>} \cup {<<l>> : l \in DLines} \cup {<<l, m>> : l \in DLines, m \in DLines}

Blanks(k) == [i \in 1..k |-> <<>>]

ParseIdle ==
    /\ target_ip = IP_A
    /\ pc = "idle"
    /\ header = None
    /\ mapping = None
    /\ counts = <<>>
    /\ min_sec = None
    /\ max_sec = None
    /\ row = <<>>
    /\ nread = 0
    /\ nelig = 0
    /\ nacc = 0
    /\ outcome = "none"
    /\ series = None
    /\ plotted = None

\* a file: some blank lines, then at most two more lines
InitDelim ==
    /\ lines \in {Blanks(k) \o tl : k \in 0..MaxBlank, tl \in Tails}
    /\ dpc = "reading"
    /\ dreads = 0
    /\ dline = <<>>
    /\ delimiter = None
    /\ derr = FALSE
    /\ ParseIdle

NextDelim == DetectStep \/ DetectExhausted \/ DetectOSError

SpecDelim == InitDelim /\ [][NextDelim]_vars

----------------------------------------------------------------------------
(* Header resolution on many headers: the first row is any row of five      *)
(* names, in any order and with repetitions.                                *)

HdrNames ==
    {N_frame_time_epoch, N_ip_src, H_IPSRC, N_udp_srcport, N_sport, N_ip_dst,
     N_udp_dstport, H_x}

HdrCore ==
    {N_frame_time_epoch, N_ip_src, N_udp_srcport, N_sport, N_ip_dst, N_udp_dstport}

InitHdr ==
    /\ target_ip = IP_A
    /\ ParseStart
    /\ DelimIdle

\* the first row is five columns of any names, or the six accepted names in
\* any order (the source port then has two of its aliases in the header)
ReadWideHeader ==
    /\ nread = 0
    /\ \/ \E a \in HdrNames, b \in HdrNames, c \in HdrNames, d \in HdrNames,
              e \in HdrNames : ProcessRow(<<a, b, c, d, e>>)
       \/ \E a \in HdrCore, b \in HdrCore, c \in HdrCore, d \in HdrCore,
              e \in HdrCore, f \in HdrCore :
              /\ Cardinality({a, b, c, d, e, f}) = 6
              /\ ProcessRow(<<a, b, c, d, e, f>>)

NextHdr == ReadWideHeader \/ EndOfInput

SpecHdr == InitHdr /\ [][NextHdr]_vars

----------------------------------------------------------------------------
(* Sums, for the statements below. *)

RECURSIVE SeqSum(_)
SeqSum(s) == IF s = <<>> THEN 0 ELSE s[1] + SeqSum(Tail(s))

RECURSIVE SumOver(_, _)
SumOver(f, S) ==
    IF S = {} THEN 0
    ELSE LET x == CHOOSE y \in S : TRUE IN f[x] + SumOver(f, S \ {x})

\* the sum of the counts stored in one key's sub-mapping
MapSum(f) == SumOver(f, DOMAIN f)

\* the sum of all counts of the table
TableTotal(c) == SumOver([k \in DOMAIN c |-> MapSum(c[k])], DOMAIN c)

\* the count stored at [k][s], 0 when there is no such entry
Cell(c, k, s) == IF k \in DOMAIN c /\ s \in DOMAIN c[k] THEN c[k][s] ELSE 0

\* the seconds counted under any key
AllSeconds(c) == UNION {DOMAIN c[k] : k \in DOMAIN c}

\* the (key, second) pairs that have an entry
Cells(c) == {e \in (DOMAIN c) \X AllSeconds(c) : e[2] \in DOMAIN c[e[1]]}

\* a pass is under way or was ended by an exception: the locals are live
InPass == pc \in {"loop", "raised"}

\* a step that read a row
ReadsRow == nread' = nread + 1

----------------------------------------------------------------------------
(* The statements. *)

\* C1: row content never makes the parse pass fail: whatever the rows hold,
\* no exception leaves parse_csv.
C1_NoRowRaises == pc /= "raised"

\* the total stored under key k grows by one and no other key's total changes
CountedUnder(k) ==
    /\ k \in DOMAIN counts'
    /\ MapSum(counts'[k]) = (IF k \in DOMAIN counts THEN MapSum(counts[k]) ELSE 0) + 1
    /\ \A k2 \in (DOMAIN counts') \ {k} : k2 \in DOMAIN counts /\ counts'[k2] = counts[k2]

\* C2: a row that parses under the mapping is counted under (target_ip, sport)
\* when sip is the target, else under (target_ip, dport) when dip is the
\* target, else not at all.
C2_KeyResolution ==
    [][(ReadsRow /\ Len(row') >= 5 /\ outcome' /= "header")
         => \A f \in {ParseFields(row', mapping'[1])} :
               f.ok =>
                  IF f.sip = target_ip THEN CountedUnder(<<target_ip, f.sport>>)
                  ELSE IF f.dip = target_ip THEN CountedUnder(<<target_ip, f.dport>>)
                  ELSE counts' = counts]_vars

\* a text holds a '.' and a digit
DotAndDigit(s) ==
    (\E i \in 1..Len(s) : s[i] = ".") /\ (\E i \in 1..Len(s) : s[i] \in Range(Digits))

\* field f (1..5, in the order of the mapping tuple) has an alias in hdr
AliasPresent(f, hdr) ==
    \E a \in 1..Len(FieldAliases[f]) : FieldAliases[f][a] \in Range(hdr)

\* what the row just read decided, when it is the row that decides the layout
DecidesLayout ==
    IF has_alpha(row)
    THEN /\ outcome = "header"
         /\ header /= None
         /\ header[1] = [i \in 1..Len(row) |-> lower(strip(row[i]))]
         /\ mapping /= None
         /\ \/ mapping[1] = <<0, 1, 2, 3, 4>>
            \/ \A f \in 1..5 :
                  /\ AliasPresent(f, header[1])
                  /\ header[1][mapping[1][f] + 1] \in Range(FieldAliases[f])
         /\ counts = <<>>
    ELSE /\ header = Some(<<>>)
         /\ outcome /= "header"
         /\ Len(row) >= 2
         /\ mapping = Some(IF DotAndDigit(row[2]) THEN <<0, 1, 2, 3, 4>>
                           ELSE <<0, 3, 1, 4, 2>>)

\* C3 (as stated): the first row of the input decides the layout, whatever
\* its number of fields.
C3_FirstRowDecides == (InPass /\ nread = 1 /\ row /= <<>>) => DecidesLayout

\* C3 (amended): the first row with at least 5 fields decides the layout; rows
\* with fewer fields before it decide nothing, and no later row changes the
\* decision.
C3_FirstFullRowDecides ==
    /\ [](InPass /\ nelig = 0 => header = None /\ mapping = None)
    /\ [](InPass /\ nelig = 1 /\ Len(row) >= 5 => DecidesLayout)
    /\ [][(nelig >= 1 /\ pc' /= "done") => (header' = header /\ mapping' = mapping)]_vars

C3_Witness ==
    /\ InPass
    /\ nread = 2
    /\ nelig = 1
    /\ Len(row) >= 5
    /\ has_alpha(row)
    /\ outcome = "header"

\* the lines of the file that are not blank
NonBlank(ls) == SelectSeq(ls, LAMBDA l : ~IsBlankLine(l))

\* the delimiter the first line of ls with a TAB or a COMMA gives, COMMA when
\* there is none
FirstSignal(ls) ==
    LET sig == {i \in 1..Len(ls) : Count(ls[i], TAB) > 0 \/ Count(ls[i], COMMA) > 0}
    IN  IF sig = {} THEN COMMA
        ELSE IF Count(ls[SetMin(sig)], TAB) >= Count(ls[SetMin(sig)], COMMA)
        THEN TAB ELSE COMMA

Prefix(ls, n) == SubSeq(ls, 1, IF Len(ls) < n THEN Len(ls) ELSE n)

\* C4 (as stated): the first 50 non-blank lines are looked at, blank lines not
\* counting toward the 50.
C4_FiftyNonBlankLines ==
    (dpc = "done" /\ ~derr) =>
        delimiter = Some(FirstSignal(Prefix(NonBlank(lines), 50)))

\* C4 (amended): the non-blank lines among the first 50 lines are looked at
\* (blank lines count toward the 50); COMMA when the input cannot be read.
C4_FirstFiftyLines ==
    dpc = "done" =>
        delimiter = Some(IF derr THEN COMMA
                         ELSE FirstSignal(NonBlank(Prefix(lines, 50))))

C4_Witness ==
    /\ dpc = "done"
    /\ ~derr
    /\ Len(lines) > 50
    /\ \A i \in 1..50 : IsBlankLine(lines[i])
    /\ Count(lines[51], TAB) > 0
    /\ delimiter = Some(COMMA)

\* C5: a header maps each field to the first column holding its
\* highest-priority alias present when all five fields have one, and to
\* (0,1,2,3,4) when any field has none.
C5_HeaderMapping ==
    (InPass /\ outcome = "header") =>
        LET hdr == header[1]
            m == mapping[1]
        IN  /\ Len(hdr) = Len(row)
            /\ row = HeaderPermuted => m = <<4, 0, 1, 2, 3>>
            /\ row = <<H_IPSRC, N_udp_srcport, N_ip_dst, N_udp_dstport,
                       N_frame_time_epoch>> => m = <<4, 0, 1, 2, 3>>
            /\ IF \A f \in 1..5 : AliasPresent(f, hdr)
               THEN \A f \in 1..5 : \E a \in 1..Len(FieldAliases[f]) :
                       /\ m[f] + 1 \in 1..Len(hdr)
                       /\ hdr[m[f] + 1] = FieldAliases[f][a]
                       /\ \A b \in 1..(a - 1) : FieldAliases[f][b] \notin Range(hdr)
                       /\ \A j \in 1..m[f] : hdr[j] /= FieldAliases[f][a]
               ELSE m = <<0, 1, 2, 3, 4>>

C5_Witness ==
    /\ InPass
    /\ outcome = "header"
    /\ row = <<N_sport, N_ip_src, N_udp_srcport, N_ip_dst, N_udp_dstport,
               N_frame_time_epoch>>
    /\ mapping = Some(<<5, 1, 2, 3, 4>>)

Example1 == <<T_100_0, IP_A, P_1234, IP_B, P_80>>

Example2 == <<T_100_0, P_1234, P_80, IP_A, IP_B>>

\* the table with the one entry [k][s] = n
OneCell(k, s, n) == [x \in {k} |-> [y \in {s} |-> n]]

\* C6: a first full row without letters fixes (0,1,2,3,4) when its field 1
\* holds a '.' and a digit and (0,3,1,4,2) otherwise, and is itself parsed as
\* data; both example rows give exactly ((1.2.3.4, 1234), second 100, count 1).
C6_Headerless ==
    (InPass /\ nelig = 1 /\ Len(row) >= 5 /\ ~has_alpha(row)) =>
        /\ header = Some(<<>>)
        /\ mapping = Some(IF DotAndDigit(row[2]) THEN <<0, 1, 2, 3, 4>>
                          ELSE <<0, 3, 1, 4, 2>>)
        /\ outcome \in {"malformed", "nomatch", "accepted", "raised"}
        /\ (outcome = "malformed") = ~ParseFields(row, mapping[1]).ok
        /\ (row \in {Example1, Example2} /\ target_ip = IP_A) =>
              /\ outcome = "accepted"
              /\ counts = OneCell(<<IP_A, 1234>>, 100, 1)
              /\ min_sec = Some(100)
              /\ max_sec = Some(100)

C6_Witness ==
    /\ InPass
    /\ nread = 1
    /\ row = Example2
    /\ target_ip = IP_A
    /\ mapping = Some(<<0, 3, 1, 4, 2>>)
    /\ counts = OneCell(<<IP_A, 1234>>, 100, 1)

\* C7: build_series on a key's counts gives xs = mn..mx and ys of the same
\* length, ys[i] the count of xs[i] or 0, both empty when mx < mn; over the
\* returned Observed Range the sum of ys is the sum of the key's counts, no
\* counted second lying outside that range.
C7_Densification ==
    /\ pc = "done" =>
          \A s \in AllSeconds(counts) : min_sec[1] <= s /\ s <= max_sec[1]
    /\ series /= None =>
          LET c == counts[series[1].key]
              mn == series[1].mn
              mx == series[1].mx
              xs == series[1].out.xs
              ys == series[1].out.ys
          IN  /\ Len(xs) = Len(ys)
              /\ mx < mn => xs = <<>> /\ ys = <<>>
              /\ mx >= mn => Len(xs) = mx - mn + 1
              /\ \A i \in 1..Len(xs) :
                    /\ xs[i] = mn + i - 1
                    /\ ys[i] = IF xs[i] \in DOMAIN c THEN c[xs[i]] ELSE 0
              /\ (mn = min_sec[1] /\ mx = max_sec[1]) => SeqSum(ys) = MapSum(c)

C7_Witness ==
    /\ series /= None
    /\ Cardinality(DOMAIN counts) >= 2
    /\ series[1].mn = min_sec[1]
    /\ series[1].mx = max_sec[1]
    /\ min_sec[1] < max_sec[1]
    /\ \E i \in 1..Len(series[1].out.ys) : series[1].out.ys[i] = 0
    /\ SeqSum(series[1].out.ys) >= 2

\* C8: once the mapping is set it does not change until the pass ends, every
\* later row is read through it, and no later row becomes the header.
C8_MappingFixed ==
    [][(mapping /= None /\ pc' /= "done") =>
          /\ mapping' = mapping
          /\ header' = header
          /\ outcome' /= "header"
          /\ (ReadsRow /\ Len(row') >= 5) =>
                (outcome' = "malformed") = ~ParseFields(row', mapping[1]).ok]_vars

C8_Witness ==
    /\ InPass
    /\ nelig >= 2
    /\ Len(row) >= 5
    /\ has_alpha(row)
    /\ mapping = Some(LegacyOrder)
    /\ outcome = "malformed"

\* the step leaves the table, the range and the number of accepted rows as
\* they were
Untouched ==
    /\ counts' = counts
    /\ min_sec' = min_sec
    /\ max_sec' = max_sec
    /\ nacc' = nacc

\* the step adds one to the cell [k][s] and changes no other cell
OneMore(k, s) ==
    /\ Cell(counts', k, s) = Cell(counts, k, s) + 1
    /\ \A e \in Cells(counts') \cup Cells(counts) :
          e /= <<k, s>> => Cell(counts', e[1], e[2]) = Cell(counts, e[1], e[2])

\* C9: a discarded row changes neither the table nor the range; an accepted
\* row adds one to exactly one cell [key][floor(t)]; no entry is removed or
\* lowered; the total of the counts is the number of accepted rows.
C9_RowEffect ==
    /\ [](TableTotal(counts) = nacc)
    /\ [][ReadsRow =>
            /\ IF Len(row') < 5 \/ (header = None /\ has_alpha(row'))
               THEN Untouched
               ELSE \A f \in {ParseFields(row', mapping'[1])} :
                      IF ~f.ok \/ (f.sip /= target_ip /\ f.dip /= target_ip)
                      THEN Untouched
                      ELSE IF pc' /= "loop"
                      THEN counts' = counts
                      ELSE /\ nacc' = nacc + 1
                           /\ OneMore(<<target_ip, IF f.sip = target_ip
                                                   THEN f.sport ELSE f.dport>>,
                                      Floor(f.t))
            /\ \A e \in Cells(counts) :
                  /\ e \in Cells(counts')
                  /\ Cell(counts', e[1], e[2]) >= Cell(counts, e[1], e[2])]_vars

C9_Witness ==
    /\ InPass
    /\ nread = 3
    /\ nacc = 2
    /\ outcome = "nomatch"
    /\ \E e \in Cells(counts) : Cell(counts, e[1], e[2]) = 2

\* C10: with no accepted row parse_csv returns the empty table and (0, 0)
\* without raising; plot_counts on an empty (filtered) table reports that
\* there is nothing to plot and draws and saves nothing; with accepted rows
\* the range is the smallest and largest counted second.
C10_EmptyResult ==
    /\ nacc = 0 => pc /= "raised"
    /\ (pc = "done" /\ nacc = 0) =>
          counts = <<>> /\ min_sec = Some(0) /\ max_sec = Some(0)
    /\ (pc = "done" /\ nacc > 0) =>
          /\ min_sec = Some(SetMin(AllSeconds(counts)))
          /\ max_sec = Some(SetMax(AllSeconds(counts)))
    /\ plotted /= None =>
          LET pf == plotted[1].port_filter
              left == {k \in DOMAIN counts : pf = None \/ k[2] = pf[1]}
          IN  left = {} =>
                 /\ plotted[1].nothing
                 /\ ~plotted[1].rendered
                 /\ ~plotted[1].saved

====
